---- MODULE Spec2Model ----
(***************************************************************************)
(* Attendance front-end: the registration wizard (RegisterAttendance), the *)
(* polling confirmation screen (ConfirmationPage) and the localStorage     *)
(* confirmation screen, as state machines over React state, the browser's  *)
(* camera / geolocation / timers, localStorage and requests in flight.     *)
(*                                                                         *)
(* One action is one event-loop task: a click handler, a timer callback or *)
(* the continuation of an awaited promise, together with the re-render and *)
(* the effects that its state updates trigger.                             *)
(***************************************************************************)
EXTENDS Integers, FiniteSets, Sequences, TLC

NULL == "null"
\* The null of a MediaStream cell (streams are numbered from 1).
NoStream == 0

\* ------------------------------------------------------------------ bounds
MaxStreams == 2        \* camera streams granted in one behaviour
MaxCamPending == 2     \* getUserMedia calls awaiting the user's answer
MaxCamTimers == 1      \* 250 ms re-acquire timers pending
MaxPolls == 10         \* pollingCount values explored (the budget is 10)
MaxStatusInFlight == 2 \* attendance_status queries outstanding
MaxRegInFlight == 2    \* register_attendance requests outstanding
MaxQueries == 12       \* attendance_status queries sent in one behaviour
MaxReads == 3          \* runs of the localStorage screen's effect

\* ------------------------------------------------------- program constants
PollBudget == 10       \* pollingCount < 10
SlowPollAfter == 5     \* pollingCount > 5

StreamIds == 1..MaxStreams

Attendees == { [name |-> "A. Kumar", reg_no |-> "FAC123"],
               [name |-> "B. Rao", reg_no |-> "FAC999"] }
RegNos == { a.reg_no : a \in Attendees }

\* A position as the form fields user_lat, user_lng carry it.
Coords == { "13.08,80.27" }

NoParams == [status |-> NULL, name |-> NULL, regNo |-> NULL, message |-> NULL]
NoData == [name |-> NULL, reg_no |-> NULL]

\* Answers of POST /register_attendance and GET /attendance_status.
RegOutcomes == { "success", "already_registered", "unexpected", "http400",
                 "http401", "http403", "http404", "http500", "network" }
StatusOutcomes == { "registered", "pending", "error", "http404", "http500",
                    "network" }
\* The answers to register_attendance that are no HTTP success.
FailedOutcomes == { "http400", "http401", "http403", "http404", "http500",
                    "network" }
\* The message (result.message, errorData.detail) of an answer, if it has one.
ServerMessages == { NULL, "server message" }

VARIABLES
  \* browser
  route,            \* the screen the router shows
  navParams,        \* query string of the last router.push
  browser,          \* which device APIs navigator offers
  toast,            \* title of the toast the last task raised, if any
  user_reg_no,      \* localStorage 'user_reg_no'
  registrationData, \* localStorage 'registrationData'
  \* camera
  liveStreams,      \* streams with a track that was not stopped
  stopCount,        \* how often each stream's tracks were stopped
  acquired,         \* streams granted so far
  camPending,       \* getUserMedia promises not settled
  camTimers,        \* setTimeout(startCamera, 250) not fired
  geoPending,       \* getCurrentPosition callbacks not called
  regInFlight,      \* register_attendance requests not answered
  \* RegisterAttendance state
  step, photoTaken, cameraActive, stream, selfieData, location,
  locationLoading, locationError, submitting, videoSrc,
  \* ConfirmationPage (polling) state
  status, userData, message, pollingCount,
  pollTimer,        \* the setInterval of the last effect run is armed
  statusInFlight,   \* closure pollingCount -> queries not answered
  statusOrphans,    \* queries not answered whose screen was unmounted
  queriesIssued,    \* attendance_status queries sent by this screen
  \* ConfirmationPage (localStorage) state
  sStatus, attendanceData, errorDetails, sMessage, searchParams,
  storeReads,       \* localStorage.getItem('registrationData') calls
  \* CreateEvent state
  manualCoords, eventLocation, locationInput,
  eventName, eventDesc, perimeter, startDate, startTime, endDate, endTime,
  gettingLocation,  \* also: a getCurrentPosition call is pending
  createSubmitting, \* CreateEvent's submitting
  createInFlight,   \* create_event requests not answered
  \* admin session
  adminAuthenticated, \* localStorage 'adminAuthenticated'
  navPending,       \* target of a router.push whose navigation is not done
  \* FailedAttemptsPage state
  failedAttempts, events, attemptsLoading, selectedEvent, processingAttempt,
  loadInFlight,     \* loadData calls not finished: the closure's selectedEvent
  loadedFor,        \* the filter whose load produced failedAttempts
  approveInFlight,  \* attempt_id -> approve_attendance requests not answered
  \* AdminDashboard state
  activeEvents, pastEvents, dashLoading, faceCount, failedAttemptsCount,
  dashFetch         \* fetchDashboardData not finished: its position

envVars == <<route, navParams, browser, user_reg_no, registrationData>>
cameraVars == <<liveStreams, stopCount, acquired, camPending, camTimers>>
wizVars == <<step, photoTaken, cameraActive, stream, selfieData, location,
             locationLoading, locationError, submitting, videoSrc>>
netVars == <<geoPending, regInFlight>>
pollVars == <<status, userData, message, pollingCount, pollTimer,
              statusInFlight, statusOrphans, queriesIssued>>
storeVars == <<sStatus, attendanceData, errorDetails, sMessage, searchParams,
               storeReads>>
createVars == <<eventName, eventDesc, perimeter, startDate, startTime, endDate,
                endTime, gettingLocation, createSubmitting, createInFlight>>
authVars == <<adminAuthenticated, navPending>>
attemptVars == <<failedAttempts, events, attemptsLoading, selectedEvent,
                 processingAttempt, loadInFlight, loadedFor, approveInFlight>>
dashVars == <<activeEvents, pastEvents, dashLoading, faceCount,
              failedAttemptsCount, dashFetch>>
adminVars == <<manualCoords, eventLocation, locationInput, createVars, authVars,
               attemptVars, dashVars>>
vars == <<envVars, toast, cameraVars, wizVars, netVars, pollVars, storeVars,
          adminVars>>

wizMounted == route = "register"
pollMounted == route = "confirmation"

\* ------------------------------------------------------------------ camera
\* The camera as the component sees it: its two state cells, the tracks of
\* the browser, the pending getUserMedia calls and the toast.
Cam == [cameraActive |-> cameraActive, stream |-> stream, live |-> liveStreams,
        stops |-> stopCount, pending |-> camPending, toast |-> NULL]

cameraSupported == browser # "nocamera"
geoSupported == browser # "nogeo"

\* startCamera up to its await: the getUserMedia call is made, or the
\* unsupported toast is raised.
startCamera(c) ==
  IF ~cameraSupported
    THEN [c EXCEPT !.toast = "Camera not supported"]
    ELSE [c EXCEPT !.pending = @ + 1]

\* stopCamera of the current render: stops the tracks of the stream in state.
stopCamera(c) ==
  IF c.stream # NoStream
    THEN [c EXCEPT !.live = @ \ {c.stream},
                   !.stops = [@ EXCEPT ![c.stream] = @ + 1],
                   !.stream = NoStream,
                   !.cameraActive = FALSE]
    ELSE [c EXCEPT !.cameraActive = FALSE]

\* The effect on [step, cameraActive, stream].
cameraEffect(st, c) ==
  IF st = 1 /\ ~c.cameraActive /\ c.stream = NoStream THEN startCamera(c)
  ELSE IF st # 1 /\ c.cameraActive THEN stopCamera(c)
  ELSE c

\* The effect on [cameraActive, stream]: what the <video> element shows
\* after a render with step st and camera c.
videoEffect(st, c) ==
  IF st # 1 THEN NoStream
  ELSE IF <<c.cameraActive, c.stream>> # <<cameraActive, stream>>
    THEN (IF c.cameraActive /\ c.stream # NoStream THEN c.stream ELSE NoStream)
  ELSE IF step # 1 THEN NoStream
  ELSE videoSrc

\* A render of the wizard with step st and camera c, and the effects whose
\* dependencies changed.
Render(st, c) ==
  LET d == IF <<st, c.cameraActive, c.stream>> # <<step, cameraActive, stream>>
             THEN cameraEffect(st, c) ELSE c
  IN /\ step' = st
     /\ cameraActive' = d.cameraActive
     /\ stream' = d.stream
     /\ liveStreams' = d.live
     /\ stopCount' = d.stops
     /\ camPending' = d.pending
     /\ toast' = d.toast
     /\ videoSrc' = videoEffect(st, d)

\* ------------------------------------------------------- RegisterAttendance
\* The wizard's state cells as a fresh mount (or after the unmount) has them.
WizardReset ==
  /\ step' = 1
  /\ photoTaken' = FALSE
  /\ cameraActive' = FALSE
  /\ stream' = NoStream
  /\ selfieData' = NULL
  /\ location' = NULL
  /\ locationLoading' = FALSE
  /\ locationError' = ""
  /\ submitting' = FALSE
  /\ videoSrc' = NoStream

\* The frame the <video> element can give: non-zero videoWidth/videoHeight.
frameReady == videoSrc # NoStream /\ videoSrc \in liveStreams

\* A capture that sets photoTaken although toDataURL gave no image.
TakePhotoWithoutData ==
  /\ wizMounted /\ step = 1 /\ ~photoTaken
  /\ \/ /\ toast' = "Camera not ready"
        /\ UNCHANGED <<photoTaken, selfieData>>
     \/ /\ frameReady
        /\ selfieData' = "data:image/jpeg"
        /\ photoTaken' = TRUE
        /\ toast' = NULL
     \/ /\ frameReady
        /\ toast' = "Photo Error"
        /\ photoTaken' = TRUE
        /\ UNCHANGED selfieData
  /\ UNCHANGED <<route, navParams, browser, user_reg_no, registrationData,
                 cameraVars, netVars, pollVars, storeVars, adminVars, step, cameraActive,
                 stream, location, locationLoading, locationError, submitting,
                 videoSrc>>

\* Click on Capture (shown at step 1 while no photo is taken).
TakePhoto ==
  /\ wizMounted /\ step = 1 /\ ~photoTaken
  /\ \/ /\ toast' = "Camera not ready"
        /\ UNCHANGED <<photoTaken, selfieData>>
     \/ /\ frameReady
        /\ selfieData' = "data:image/jpeg"
        /\ photoTaken' = TRUE
        /\ toast' = NULL
     \/ /\ frameReady
        /\ toast' = "Photo Error"
        /\ UNCHANGED <<photoTaken, selfieData>>
  /\ UNCHANGED <<route, navParams, browser, user_reg_no, registrationData,
                 cameraVars, netVars, pollVars, storeVars, adminVars, step, cameraActive,
                 stream, location, locationLoading, locationError, submitting,
                 videoSrc>>

\* Click on Retake (shown at step 1 once a photo is taken).
RetakePhoto ==
  /\ wizMounted /\ step = 1 /\ photoTaken
  /\ camTimers < MaxCamTimers
  /\ selfieData' = NULL
  /\ photoTaken' = FALSE
  /\ camTimers' = camTimers + 1
  /\ toast' = NULL
  /\ UNCHANGED <<envVars, liveStreams, stopCount, acquired, camPending,
                 netVars, pollVars, storeVars, adminVars, step, cameraActive, stream,
                 location, locationLoading, locationError, submitting, videoSrc>>

\* A 250 ms timer of retakePhoto or prevStep fires: startCamera().  The timer
\* is not cleared by the unmount.
CamTimerFire ==
  /\ camTimers > 0
  /\ camPending < MaxCamPending
  /\ camTimers' = camTimers - 1
  /\ LET c == startCamera(Cam)
     IN /\ camPending' = c.pending
        /\ toast' = c.toast
  /\ UNCHANGED <<route, navParams, browser, user_reg_no, registrationData,
                 liveStreams, stopCount, acquired, wizVars, netVars, pollVars,
                 storeVars, adminVars>>

\* getUserMedia resolves with a new stream: setStream, setCameraActive(true).
\* On an unmounted component the two updates are dropped.
CamGranted ==
  /\ camPending > 0
  /\ acquired < MaxStreams
  /\ acquired' = acquired + 1
  /\ LET s == acquired + 1
         c == [Cam EXCEPT !.pending = @ - 1, !.live = @ \cup {s}]
     IN IF wizMounted
          THEN Render(step, [c EXCEPT !.stream = s, !.cameraActive = TRUE])
          ELSE /\ liveStreams' = c.live
               /\ camPending' = c.pending
               /\ toast' = NULL
               /\ UNCHANGED <<step, cameraActive, stream, stopCount, videoSrc>>
  /\ UNCHANGED <<route, navParams, browser, user_reg_no, registrationData,
                 camTimers, netVars, pollVars, storeVars, adminVars, photoTaken,
                 selfieData, location, locationLoading, locationError,
                 submitting>>

\* getUserMedia rejects: the Camera Error toast.
CamDenied ==
  /\ camPending > 0
  /\ camPending' = camPending - 1
  /\ toast' = "Camera Error"
  /\ UNCHANGED <<route, navParams, browser, user_reg_no, registrationData,
                 liveStreams, stopCount, acquired, camTimers, wizVars, netVars,
                 pollVars, storeVars, adminVars>>

\* nextStep without its photo check.
nextStepNoPhotoCheck ==
  LET c == IF step = 1 /\ cameraActive THEN stopCamera(Cam) ELSE Cam
  IN Render(IF step < 2 THEN step + 1 ELSE step, c)

\* The body of nextStep.
nextStep ==
  IF step = 1 /\ ~photoTaken
    THEN /\ toast' = "Photo Required"
         /\ UNCHANGED <<step, cameraActive, stream, liveStreams, stopCount,
                        camPending, videoSrc>>
    ELSE LET c == IF step = 1 /\ cameraActive THEN stopCamera(Cam) ELSE Cam
         IN Render(IF step < 2 THEN step + 1 ELSE step, c)

\* Click on Next (shown at step 1, disabled while no photo is taken).
NextStep ==
  /\ wizMounted /\ step < 2 /\ photoTaken
  /\ nextStep
  /\ UNCHANGED <<route, navParams, browser, user_reg_no, registrationData,
                 acquired, camTimers, netVars, pollVars, storeVars, adminVars, photoTaken,
                 selfieData, location, locationLoading, locationError,
                 submitting>>

\* nextStep called as a function, whatever the button's attribute.
NextDirect ==
  /\ wizMounted
  /\ nextStep
  /\ UNCHANGED <<route, navParams, browser, user_reg_no, registrationData,
                 acquired, camTimers, netVars, pollVars, storeVars, adminVars, photoTaken,
                 selfieData, location, locationLoading, locationError,
                 submitting>>

\* A prevStep that goes back without clearing the captured image.
PrevStepKeepsPhoto ==
  /\ wizMounted /\ step > 1
  /\ camTimers < MaxCamTimers /\ camPending < MaxCamPending
  /\ camTimers' = camTimers + 1
  /\ Render(step - 1, Cam)
  /\ UNCHANGED <<route, navParams, browser, user_reg_no, registrationData,
                 acquired, netVars, pollVars, storeVars, adminVars, location,
                 locationLoading, locationError, submitting, photoTaken,
                 selfieData>>

\* Click on Previous (shown at step 2).
PrevStep ==
  /\ wizMounted /\ step > 1
  /\ camTimers < MaxCamTimers /\ camPending < MaxCamPending
  /\ photoTaken' = FALSE
  /\ selfieData' = NULL
  /\ camTimers' = camTimers + 1
  /\ Render(step - 1, Cam)
  /\ UNCHANGED <<route, navParams, browser, user_reg_no, registrationData,
                 acquired, netVars, pollVars, storeVars, adminVars, location,
                 locationLoading, locationError, submitting>>

\* Click on Get Current Location (shown at step 2 while no location is set).
GetLocation ==
  /\ wizMounted /\ step = 2 /\ location = NULL /\ ~locationLoading
  /\ IF ~geoSupported
       THEN /\ locationError' = "Geolocation is not supported by your browser"
            /\ UNCHANGED <<locationLoading, geoPending>>
       ELSE /\ locationError' = ""
            /\ locationLoading' = TRUE
            /\ geoPending' = geoPending + 1
  /\ toast' = NULL
  /\ UNCHANGED <<envVars, cameraVars, pollVars, storeVars, adminVars, regInFlight,
                 step, photoTaken, cameraActive, stream, selfieData, location,
                 submitting, videoSrc>>

\* getCurrentPosition calls back with a position.
GeoSuccess ==
  /\ geoPending > 0
  /\ geoPending' = geoPending - 1
  /\ IF wizMounted
       THEN /\ \E c \in Coords : location' = c
            /\ locationLoading' = FALSE
       ELSE UNCHANGED <<location, locationLoading>>
  /\ toast' = NULL
  /\ UNCHANGED <<envVars, cameraVars, pollVars, storeVars, adminVars, regInFlight,
                 step, photoTaken, cameraActive, stream, selfieData,
                 locationError, submitting, videoSrc>>

\* getCurrentPosition calls back with an error.
GeoError ==
  /\ geoPending > 0
  /\ geoPending' = geoPending - 1
  /\ IF wizMounted
       THEN /\ locationError' = "Could not get your location. Please check permissions."
            /\ locationLoading' = FALSE
       ELSE UNCHANGED <<locationError, locationLoading>>
  /\ toast' = NULL
  /\ UNCHANGED <<envVars, cameraVars, pollVars, storeVars, adminVars, regInFlight,
                 step, photoTaken, cameraActive, stream, selfieData, location,
                 submitting, videoSrc>>

\* --------------------------------------------- ConfirmationPage (polling)
NoQueries == [c \in 0..MaxPolls |-> 0]

RECURSIVE SumTo(_, _)
SumTo(f, n) == IF n < 0 THEN 0 ELSE f[n] + SumTo(f, n - 1)
inFlight(f) == SumTo(f, MaxPolls)

\* checkAttendanceStatus up to its await, called by a render whose closure
\* holds pollingCount c: the fetch is sent.
checkAttendanceStatus(f, c) == [f EXCEPT ![c] = @ + 1]

\* One run of the effect on [eventId, status, pollingCount, toast], after the
\* cleanup of the run before it, in a render with status st, count n and
\* message m; f are the queries in flight and q those sent so far.
PollEffect(st, n, m, f, q) ==
  IF user_reg_no = NULL
    THEN /\ status' = "error"
         /\ message' = "User registration number not found. Please log in again."
         /\ pollTimer' = FALSE
         /\ statusInFlight' = f
         /\ queriesIssued' = q
    ELSE /\ status' = st
         /\ message' = m
         /\ statusInFlight' = checkAttendanceStatus(f, n)
         /\ queriesIssued' = q + 1
         /\ pollTimer' = TRUE

\* The screen mounts: fresh state, first render, first effect run.
PollMount ==
  /\ userData' = NoData
  /\ pollingCount' = 0
  /\ UNCHANGED statusOrphans
  /\ PollEffect("loading", 0, "", NoQueries, 0)

\* An unmount whose cleanup does not clear the interval.
PollUnmountKeepsTimer ==
  /\ status' = "loading"
  /\ userData' = NoData
  /\ message' = ""
  /\ pollingCount' = 0
  /\ statusInFlight' = NoQueries
  /\ statusOrphans' =
       [slow |-> statusOrphans.slow
                   + inFlight([c \in 0..MaxPolls |->
                                 IF c > SlowPollAfter THEN statusInFlight[c] ELSE 0]),
        quiet |-> statusOrphans.quiet
                   + inFlight([c \in 0..MaxPolls |->
                                 IF c > SlowPollAfter THEN 0 ELSE statusInFlight[c]])]
  /\ UNCHANGED <<queriesIssued, pollTimer>>

\* The screen unmounts: the cleanup clears the interval; the queries in
\* flight stay in flight, their closures now those of a dead component.
PollUnmount ==
  /\ status' = "loading"
  /\ userData' = NoData
  /\ message' = ""
  /\ pollingCount' = 0
  /\ pollTimer' = FALSE
  /\ statusInFlight' = NoQueries
  /\ statusOrphans' =
       [slow |-> statusOrphans.slow
                   + inFlight([c \in 0..MaxPolls |->
                                 IF c > SlowPollAfter THEN statusInFlight[c] ELSE 0]),
        quiet |-> statusOrphans.quiet
                   + inFlight([c \in 0..MaxPolls |->
                                 IF c > SlowPollAfter THEN 0 ELSE statusInFlight[c]])]
  /\ UNCHANGED queriesIssued

\* router.push to the confirmation screen, from the wizard's continuation.
RouterPush(p) ==
  /\ route' = "confirmation"
  /\ navParams' = p
  /\ WizardReset
  /\ IF pollMounted THEN UNCHANGED pollVars ELSE PollMount

\* An attendance_status query of the mounted screen, sent by a render whose
\* closure held pollingCount c, is answered with o (and, when registered, the
\* attendee a).  The state after the continuation, before any effect.
StatusAnswer(c, o, a) ==
  CASE o = "http404" ->
         [status |-> "error", userData |-> userData, pollingCount |-> pollingCount,
          message |-> "Event not found. Please check the event ID.", toast |-> NULL]
    [] o \in {"http500", "network"} ->
         [status |-> "error", userData |-> userData, pollingCount |-> pollingCount,
          message |-> "Failed to check attendance status. Please try again later.",
          toast |-> NULL]
    [] o = "registered" ->
         [status |-> "registered", userData |-> a, pollingCount |-> pollingCount,
          message |-> "data.message", toast |-> NULL]
    [] o = "pending" ->
         [status |-> "pending", userData |-> userData,
          pollingCount |-> pollingCount + 1,
          message |-> IF c > SlowPollAfter
                        THEN "Your attendance is still being processed. This may take a few moments."
                        ELSE "data.message",
          toast |-> IF c > SlowPollAfter THEN "Processing" ELSE NULL]
    [] OTHER ->
         [status |-> status, userData |-> userData, pollingCount |-> pollingCount,
          message |-> message, toast |-> NULL]

\* The continuation of checkAttendanceStatus on the mounted screen, then the
\* re-render, and the effect again when status or pollingCount changed.
StatusResponseWith(o) ==
  /\ pollMounted
  /\ \E c \in 0..MaxPolls, a \in Attendees :
       /\ statusInFlight[c] > 0
       /\ o = "pending" => pollingCount < MaxPolls
       /\ queriesIssued < MaxQueries
       /\ LET r == StatusAnswer(c, o, a)
              f == [statusInFlight EXCEPT ![c] = @ - 1]
          IN /\ userData' = r.userData
             /\ pollingCount' = r.pollingCount
             /\ toast' = r.toast
             /\ IF <<r.status, r.pollingCount>> # <<status, pollingCount>>
                  THEN PollEffect(r.status, r.pollingCount, r.message, f,
                                  queriesIssued)
                  ELSE /\ status' = r.status
                       /\ message' = r.message
                       /\ statusInFlight' = f
                       /\ UNCHANGED <<pollTimer, queriesIssued>>
  /\ UNCHANGED <<route, navParams, browser, user_reg_no, registrationData,
                 cameraVars, wizVars, netVars, storeVars, adminVars, statusOrphans>>

StatusResponse == \E o \in StatusOutcomes : StatusResponseWith(o)

\* A tick of the 3000 ms interval of the last effect run.
PollTick ==
  /\ pollTimer
  /\ IF status \in {"loading", "pending"}
       THEN IF pollingCount < PollBudget
              THEN /\ inFlight(statusInFlight) < MaxStatusInFlight
                   /\ queriesIssued < MaxQueries
                   /\ statusInFlight' = checkAttendanceStatus(statusInFlight, pollingCount)
                   /\ queriesIssued' = queriesIssued + 1
                   /\ UNCHANGED <<pollTimer, message>>
              ELSE /\ pollTimer' = FALSE
                   /\ message' = IF status = "pending"
                                   THEN "Your attendance is still being processed. Please check your events page later."
                                   ELSE message
                   /\ UNCHANGED <<statusInFlight, queriesIssued>>
       ELSE /\ pollTimer' = FALSE
            /\ UNCHANGED <<statusInFlight, queriesIssued, message>>
  /\ toast' = NULL
  /\ UNCHANGED <<envVars, cameraVars, wizVars, netVars, storeVars, adminVars, status,
                 userData, pollingCount, statusOrphans>>

\* A query whose screen was unmounted is answered: the state updates are
\* dropped, the toast of a slow pending answer is still raised.
OrphanStatusResponseWith(o) ==
  /\ \E k \in {"slow", "quiet"} :
       /\ statusOrphans[k] > 0
       /\ statusOrphans' = [statusOrphans EXCEPT ![k] = @ - 1]
       /\ toast' = IF k = "slow" /\ o = "pending" THEN "Processing" ELSE NULL
  /\ UNCHANGED <<route, navParams, browser, user_reg_no, registrationData,
                 cameraVars, wizVars, netVars, storeVars, adminVars, status, userData,
                 message, pollingCount, pollTimer, statusInFlight,
                 queriesIssued>>

OrphanStatusResponse == \E o \in StatusOutcomes : OrphanStatusResponseWith(o)

\* ------------------------------------------------ submission (the wizard)
\* base64ToBlob: the data URL split at ';base64,' and decoded; rejects when
\* the string is no data URL.
base64ToBlob(base64) ==
  IF base64 = "data:image/jpeg" THEN "blob:image/jpeg" ELSE "reject"

\* submitAttendance whose guard forgets the location.
submitAttendanceNoLocationCheck ==
  IF ~photoTaken \/ selfieData = NULL
    THEN /\ toast' = "Missing Information"
         /\ UNCHANGED <<submitting, regInFlight>>
    ELSE /\ submitting' = TRUE
         /\ regInFlight' = regInFlight + 1
         /\ toast' = NULL

\* The body of submitAttendance up to the await of fetch.
submitAttendance ==
  IF ~photoTaken \/ location = NULL \/ selfieData = NULL
    THEN /\ toast' = "Missing Information"
         /\ UNCHANGED <<submitting, regInFlight>>
    ELSE IF base64ToBlob(selfieData) = "reject"
      THEN /\ toast' = "Submission Error"
           /\ submitting' = FALSE
           /\ UNCHANGED regInFlight
      ELSE /\ submitting' = TRUE
           /\ regInFlight' = regInFlight + 1
           /\ toast' = NULL

\* A button that is disabled only while no location is set.
submitDisabledWithoutSubmitting == location = NULL

\* The disabled attribute of the Complete Registration button.
submitDisabled == submitting \/ location = NULL

\* Click on Complete Registration (shown at step 2).
SubmitClick ==
  /\ wizMounted /\ step = 2 /\ ~submitDisabled
  /\ regInFlight < MaxRegInFlight
  /\ submitAttendance
  /\ UNCHANGED <<route, navParams, browser, user_reg_no, registrationData,
                 cameraVars, pollVars, storeVars, adminVars, geoPending, step, photoTaken,
                 cameraActive, stream, selfieData, location, locationLoading,
                 locationError, videoSrc>>

\* submitAttendance called as a function, whatever the button's attribute.
SubmitDirect ==
  /\ wizMounted /\ step = 2
  /\ regInFlight < MaxRegInFlight
  /\ submitAttendance
  /\ UNCHANGED <<route, navParams, browser, user_reg_no, registrationData,
                 cameraVars, pollVars, storeVars, adminVars, geoPending, step, photoTaken,
                 cameraActive, stream, selfieData, location, locationLoading,
                 locationError, videoSrc>>

\* A continuation that takes an unrecognized outcome for a success.
RegPushUnexpectedAsSuccess(o, a, m) ==
  CASE o \in {"success", "already_registered", "unexpected"} ->
         [status |-> "success", name |-> a.name, regNo |-> a.reg_no,
          message |-> IF m = NULL THEN "undefined" ELSE m]
    [] o = "http401" ->
         [status |-> "error", name |-> NULL, regNo |-> NULL,
          message |-> IF m = NULL THEN "Server error" ELSE m]
    [] OTHER -> NoParams

\* What the continuation of submitAttendance does with the answer o (with the
\* attendee a of a success payload and the message m of the answer): the
\* query string it pushes, or NoParams when it throws into the catch block.
RegPush(o, a, m) ==
  CASE o \in {"success", "already_registered"} ->
         [status |-> o, name |-> a.name, regNo |-> a.reg_no,
          message |-> IF m = NULL THEN "undefined" ELSE m]
    [] o = "unexpected" ->
         [status |-> "error", name |-> NULL, regNo |-> NULL,
          message |-> IF m = NULL THEN "Unexpected error occurred" ELSE m]
    [] o = "http401" ->
         [status |-> "error", name |-> NULL, regNo |-> NULL,
          message |-> IF m = NULL THEN "Server error" ELSE m]
    [] OTHER -> NoParams

\* A continuation whose catch block sends the request again.
RegResponseWithRetry(o) ==
  /\ regInFlight > 0
  /\ \E a \in Attendees, m \in ServerMessages :
       LET p == RegPush(o, a, m)
       IN IF p # NoParams
            THEN /\ toast' = IF o \in {"success", "already_registered"}
                               THEN "Attendance Registered" ELSE NULL
                 /\ regInFlight' = regInFlight - 1
                 /\ RouterPush(p)
            ELSE /\ toast' = "Submission Error"
                 /\ regInFlight' = regInFlight
                 /\ UNCHANGED <<route, navParams, pollVars, wizVars>>
  /\ UNCHANGED <<browser, user_reg_no, registrationData, cameraVars,
                 geoPending, storeVars, adminVars>>

\* A continuation whose catch block does not reset submitting.
RegResponseWithKeepsSubmitting(o) ==
  /\ regInFlight > 0
  /\ regInFlight' = regInFlight - 1
  /\ \E a \in Attendees, m \in ServerMessages :
       LET p == RegPush(o, a, m)
       IN IF p # NoParams
            THEN /\ toast' = IF o \in {"success", "already_registered"}
                               THEN "Attendance Registered" ELSE NULL
                 /\ RouterPush(p)
            ELSE /\ toast' = "Submission Error"
                 /\ UNCHANGED <<route, navParams, pollVars, wizVars>>
  /\ UNCHANGED <<browser, user_reg_no, registrationData, cameraVars,
                 geoPending, storeVars, adminVars>>

\* The continuation of submitAttendance after the fetch.  router and toast
\* outlive the component; setSubmitting on an unmounted component is dropped.
RegResponseWith(o) ==
  /\ regInFlight > 0
  /\ regInFlight' = regInFlight - 1
  /\ \E a \in Attendees, m \in ServerMessages :
       LET p == RegPush(o, a, m)
       IN IF p # NoParams
            THEN /\ toast' = IF o \in {"success", "already_registered"}
                               THEN "Attendance Registered" ELSE NULL
                 /\ RouterPush(p)
            ELSE /\ toast' = "Submission Error"
                 /\ submitting' = FALSE
                 /\ UNCHANGED <<route, navParams, pollVars, step, photoTaken,
                                cameraActive, stream, selfieData, location,
                                locationLoading, locationError, videoSrc>>
  /\ UNCHANGED <<browser, user_reg_no, registrationData, cameraVars,
                 geoPending, storeVars, adminVars>>

RegResponse == \E o \in RegOutcomes : RegResponseWith(o)

\* A link of the mounted screen is followed (Back to Events, Home, Events):
\* the screen unmounts and its cleanups run.  The wizard's unmount cleanup is
\* the stopCamera of the first render, whose stream is null.
NavigateAway ==
  /\ route \in {"register", "confirmation"}
  /\ route' = "events"
  /\ WizardReset
  /\ IF pollMounted THEN PollUnmount ELSE UNCHANGED pollVars
  /\ toast' = NULL
  /\ UNCHANGED <<navParams, browser, user_reg_no, registrationData,
                 cameraVars, netVars, storeVars, adminVars>>

\* ----------------------------------------- ConfirmationPage (localStorage)
\* What localStorage 'registrationData' may hold: JSON texts, or none.
StoredTexts == { "{success:true}", "{success:true,reg_no:FAC999}",
                 "{success:false,error_type:LOCATION_ERROR}",
                 "{success:false,error_type:FACE_VERIFICATION_FAILED}",
                 "{success:false}", "not json" }

\* JSON.parse of a stored text: the object, or a throw.
JSONparse(text) ==
  CASE text = "{success:true}" ->
         [throws |-> FALSE, success |-> TRUE, reg_no |-> NULL, error_type |-> NULL]
    [] text = "{success:true,reg_no:FAC999}" ->
         [throws |-> FALSE, success |-> TRUE, reg_no |-> "FAC999", error_type |-> NULL]
    [] text = "{success:false,error_type:FACE_VERIFICATION_FAILED}" ->
         [throws |-> FALSE, success |-> FALSE, reg_no |-> NULL,
          error_type |-> "FACE_VERIFICATION_FAILED"]
    [] text = "{success:false,error_type:LOCATION_ERROR}" ->
         [throws |-> FALSE, success |-> FALSE, reg_no |-> NULL,
          error_type |-> "LOCATION_ERROR"]
    [] text = "{success:false}" ->
         [throws |-> FALSE, success |-> FALSE, reg_no |-> NULL, error_type |-> NULL]
    [] OTHER ->
         [throws |-> TRUE, success |-> FALSE, reg_no |-> NULL, error_type |-> NULL]

\* The title of the error shown for parsedData.error_type.
errorTitle(error_type) ==
  CASE error_type = "FACE_VERIFICATION_FAILED" -> "Face Verification Failed"
    [] error_type = "LOCATION_ERROR" -> "Location Error"
    [] error_type = "NETWORK_ERROR" -> "Connection Error"
    [] OTHER -> "Registration Failed"

\* processRegistrationData on the stored text, the reg_no of the URL and of
\* localStorage, in a component whose state cells hold cur.
processRegistrationData(text, param, cur) ==
  LET reg_no == IF param # NULL THEN param ELSE user_reg_no
      parsedData == JSONparse(text)
  IN IF text = NULL \/ reg_no = NULL
       THEN [cur EXCEPT !.status = "error", !.errorDetails = "No Registration Data"]
     ELSE IF parsedData.throws
       THEN [cur EXCEPT !.status = "error", !.errorDetails = "Processing Error"]
     ELSE IF parsedData.success
       THEN [cur EXCEPT !.status = "registered",
                        !.attendanceData = IF parsedData.reg_no # NULL
                                             THEN parsedData.reg_no ELSE reg_no,
                        !.message = "Your attendance has been successfully registered!"]
     ELSE [cur EXCEPT !.status = "error",
                      !.errorDetails = errorTitle(parsedData.error_type),
                      !.message = "Registration failed. Please try again."]

FreshStore == [status |-> "loading", attendanceData |-> NULL,
               errorDetails |-> NULL, message |-> ""]
StoreCells == [status |-> sStatus, attendanceData |-> attendanceData,
               errorDetails |-> errorDetails, message |-> sMessage]

StoreSet(r) ==
  /\ sStatus' = r.status
  /\ attendanceData' = r.attendanceData
  /\ errorDetails' = r.errorDetails
  /\ sMessage' = r.message

storeMounted == route = "confirmation_store"

\* The effect's first run, after the first render of the mounted screen.
StoreMountEffect ==
  /\ storeMounted /\ storeReads = 0
  /\ StoreSet(processRegistrationData(registrationData, searchParams, StoreCells))
  /\ storeReads' = 1
  /\ toast' = NULL
  /\ UNCHANGED <<envVars, searchParams, cameraVars, wizVars, netVars, pollVars, adminVars>>

\* The URL's query changes while the screen is shown: useSearchParams gives a
\* new object, the effect's cleanup runs (removeItem), then the effect again.
SearchParamsChange ==
  /\ storeMounted /\ storeReads > 0 /\ storeReads < MaxReads
  /\ \E param \in {NULL, "FAC123"} :
       /\ param # searchParams
       /\ searchParams' = param
       /\ registrationData' = NULL
       /\ StoreSet(processRegistrationData(NULL, param, StoreCells))
  /\ storeReads' = storeReads + 1
  /\ toast' = NULL
  /\ UNCHANGED <<route, navParams, browser, user_reg_no, cameraVars, wizVars,
                 netVars, pollVars, adminVars>>

\* The page is reloaded: no cleanup runs; the screen mounts again and its
\* effect reads the storage.
StoreReload ==
  /\ storeMounted /\ storeReads > 0 /\ storeReads < MaxReads
  /\ StoreSet(processRegistrationData(registrationData, searchParams, FreshStore))
  /\ storeReads' = storeReads + 1
  /\ toast' = NULL
  /\ UNCHANGED <<envVars, searchParams, cameraVars, wizVars, netVars, pollVars, adminVars>>

\* A link of the screen is followed: the screen unmounts, the cleanup runs.
StoreUnmount ==
  /\ storeMounted /\ storeReads > 0
  /\ route' = "events"
  /\ registrationData' = NULL
  /\ StoreSet(FreshStore)
  /\ toast' = NULL
  /\ UNCHANGED <<navParams, browser, user_reg_no, searchParams, storeReads,
                 cameraVars, wizVars, netVars, pollVars, adminVars>>

\* ------------------------------------------------------------- CreateEvent
\* A text is the tuple of its characters.
Digits == { "0", "1", "2", "3", "4", "5", "6", "7", "8", "9" }

DigitVal(c) ==
  CASE c = "0" -> 0 [] c = "1" -> 1 [] c = "2" -> 2 [] c = "3" -> 3
    [] c = "4" -> 4 [] c = "5" -> 5 [] c = "6" -> 6 [] c = "7" -> 7
    [] c = "8" -> 8 [] c = "9" -> 9

RECURSIVE Pow10(_)
Pow10(k) == IF k <= 0 THEN 1 ELSE 10 * Pow10(k - 1)

\* A JavaScript number: NaN, an infinity, or the decimal (-1)^neg * n * 10^p
\* with n not divisible by 10.  NullNumber fills the fields of a null cell.
NaN == [kind |-> "nan", neg |-> FALSE, n |-> 0, p |-> 0]
NullNumber == [kind |-> "null", neg |-> FALSE, n |-> 0, p |-> 0]
Infinity(neg) == [kind |-> "inf", neg |-> neg, n |-> 0, p |-> 0]

RECURSIVE Number(_, _, _)
Number(neg, n, p) ==
  IF n = 0 THEN [kind |-> "num", neg |-> neg, n |-> 0, p |-> 0]
  ELSE IF n % 10 = 0 THEN Number(neg, n \div 10, p + 1)
  ELSE [kind |-> "num", neg |-> neg, n |-> n, p |-> p]

\* The scanner of parseFloat at the start of a text.
ScanStart == [phase |-> "white", neg |-> FALSE, mant |-> 0, frac |-> 0,
              digits |-> 0, eneg |-> FALSE, exp |-> 0]

\* parseFloat's scan of the text t from position i in scanner state s: white
\* space, a sign, then Infinity or integer digits, a fraction and an exponent
\* (taken only when it is complete); the scan stops at the first character
\* that cannot continue the literal.
RECURSIVE scan(_, _, _)
scan(t, i, s) ==
  IF i > Len(t) THEN s
  ELSE
    CASE s.phase = "white" ->
           IF t[i] = " " THEN scan(t, i + 1, s)
           ELSE scan(t, i, [s EXCEPT !.phase = "sign"])
      [] s.phase = "sign" ->
           IF t[i] \in {"+", "-"}
             THEN scan(t, i + 1, [s EXCEPT !.phase = "start", !.neg = (t[i] = "-")])
             ELSE scan(t, i, [s EXCEPT !.phase = "start"])
      [] s.phase = "start" ->
           IF /\ i + 7 <= Len(t)
              /\ SubSeq(t, i, i + 7) = <<"I", "n", "f", "i", "n", "i", "t", "y">>
             THEN [s EXCEPT !.phase = "inf"]
             ELSE scan(t, i, [s EXCEPT !.phase = "int"])
      [] s.phase \in {"int", "frac"} ->
           IF t[i] \in Digits
             THEN scan(t, i + 1,
                       [s EXCEPT !.mant = @ * 10 + DigitVal(t[i]),
                                 !.digits = @ + 1,
                                 !.frac = IF s.phase = "frac" THEN @ + 1 ELSE @])
           ELSE IF t[i] = "." /\ s.phase = "int"
             THEN scan(t, i + 1, [s EXCEPT !.phase = "frac"])
           ELSE IF /\ t[i] \in {"e", "E"} /\ s.digits > 0
                   /\ i + 1 <= Len(t) /\ t[i + 1] \in Digits
             THEN scan(t, i + 1, [s EXCEPT !.phase = "exp"])
           ELSE IF /\ t[i] \in {"e", "E"} /\ s.digits > 0
                   /\ i + 2 <= Len(t) /\ t[i + 1] \in {"+", "-"}
                   /\ t[i + 2] \in Digits
             THEN scan(t, i + 2, [s EXCEPT !.phase = "exp",
                                           !.eneg = (t[i + 1] = "-")])
           ELSE s
      [] s.phase = "exp" ->
           IF t[i] \in Digits
             THEN scan(t, i + 1, [s EXCEPT !.exp = @ * 10 + DigitVal(t[i])])
             ELSE s
      [] OTHER -> s

\* The number a finished scan stands for.
scanned(s) ==
  IF s.phase = "inf" THEN Infinity(s.neg)
  ELSE IF s.digits = 0 THEN NaN
  ELSE Number(s.neg, s.mant, (IF s.eneg THEN 0 - s.exp ELSE s.exp) - s.frac)

\* parseFloat: the longest prefix of the text, after leading white space,
\* that is a decimal literal, as a number; NaN when there is none.
parseFloat(t) == scanned(scan(t, 1, ScanStart))

isNaN(x) == x.kind = "nan"

\* x < K and x > K for a number x and an integer K, as JavaScript compares.
lessThan(x, K) ==
  CASE x.kind = "inf" -> x.neg
    [] x.kind = "num" ->
         LET v == IF x.neg THEN 0 - x.n ELSE x.n
         IN IF x.p >= 0 THEN v * Pow10(x.p) < K ELSE v < K * Pow10(0 - x.p)
    [] OTHER -> FALSE

greaterThan(x, K) ==
  CASE x.kind = "inf" -> ~x.neg
    [] x.kind = "num" ->
         LET v == IF x.neg THEN 0 - x.n ELSE x.n
         IN IF x.p >= 0 THEN v * Pow10(x.p) > K ELSE v > K * Pow10(0 - x.p)
    [] OTHER -> FALSE

\* x.toFixed(6) of a finite number, as the integer of its millionths.
toFixed6(x) ==
  LET m == IF x.p + 6 >= 0 THEN x.n * Pow10(x.p + 6)
           ELSE (x.n + Pow10(0 - x.p - 6) \div 2) \div Pow10(0 - x.p - 6)
  IN IF x.neg THEN 0 - m ELSE m

NoEventLocation == [lat |-> NullNumber, lng |-> NullNumber]
NoLocationInput == [empty |-> TRUE, lat |-> 0, lng |-> 0]

\* What the two <input type="number"> fields can hold: the empty text or a
\* valid floating-point number.
ManualTexts == { <<>>,
                 <<"1", "3", ".", "0", "8", "2", "7">>,
                 <<"8", "0", ".", "2", "7", "0", "7">>,
                 <<"9", "1">>,
                 <<"2", "0", "0">>,
                 <<"-", "9", "0">>,
                 <<"9", "0">>,
                 <<"9", "0", ".", "0", "0", "0", "1">>,
                 <<"-", "1", "8", "0">>,
                 <<"1", "8", "0">>,
                 <<"-", "1", "8", "0", ".", "5">>,
                 <<"1", "e", "2">>,
                 <<".", "5">>,
                 <<"0">> }

adminMounted == route = "admin_create"

AdminCells == [eventLocation |-> eventLocation, locationInput |-> locationInput,
               toast |-> NULL]

\* A handleManualCoordinates that does not check the longitude's range.
handleManualCoordinatesLatOnly(mc, cur) ==
  LET lat == parseFloat(mc.lat)
      lng == parseFloat(mc.lng)
  IN IF isNaN(lat) \/ isNaN(lng)
       THEN [cur EXCEPT !.toast = "Invalid Coordinates"]
     ELSE IF lessThan(lat, -90) \/ greaterThan(lat, 90)
       THEN [cur EXCEPT !.toast = "Invalid Coordinates"]
     ELSE [eventLocation |-> [lat |-> lat, lng |-> lng],
           locationInput |-> [empty |-> FALSE, lat |-> toFixed6(lat),
                              lng |-> toFixed6(lng)],
           toast |-> "Location Set"]

\* handleManualCoordinates on the texts mc of the two fields, in a component
\* whose cells hold cur.
handleManualCoordinates(mc, cur) ==
  LET lat == parseFloat(mc.lat)
      lng == parseFloat(mc.lng)
  IN IF isNaN(lat) \/ isNaN(lng)
       THEN [cur EXCEPT !.toast = "Invalid Coordinates"]
     ELSE IF \/ lessThan(lat, -90) \/ greaterThan(lat, 90)
             \/ lessThan(lng, -180) \/ greaterThan(lng, 180)
       THEN [cur EXCEPT !.toast = "Invalid Coordinates"]
     ELSE [eventLocation |-> [lat |-> lat, lng |-> lng],
           locationInput |-> [empty |-> FALSE, lat |-> toFixed6(lat),
                              lng |-> toFixed6(lng)],
           toast |-> "Location Set"]

\* onChange of the latitude or the longitude field.
SetManualCoords ==
  /\ adminMounted
  /\ \E t \in ManualTexts :
       \/ manualCoords' = [manualCoords EXCEPT !.lat = t]
       \/ manualCoords' = [manualCoords EXCEPT !.lng = t]
  /\ toast' = NULL
  /\ UNCHANGED <<envVars, cameraVars, wizVars, netVars, pollVars, storeVars,
                 eventLocation, locationInput, createVars, authVars,
                 attemptVars, dashVars>>

\* The disabled attribute of the Set Manual Coordinates button.
manualDisabled == manualCoords.lat = <<>> \/ manualCoords.lng = <<>>

\* handleManualCoordinates called as a function, whatever the button's
\* attribute.
ManualDirect ==
  /\ adminMounted
  /\ LET r == handleManualCoordinates(manualCoords, AdminCells)
     IN /\ eventLocation' = r.eventLocation
        /\ locationInput' = r.locationInput
        /\ toast' = r.toast
  /\ UNCHANGED <<envVars, cameraVars, wizVars, netVars, pollVars, storeVars,
                 manualCoords, createVars, authVars, attemptVars, dashVars>>

\* Click on Set Manual Coordinates.
HandleManualClick == ~manualDisabled /\ ManualDirect

\* ------------------------------------------------ admin: failed attempts
\* The other screens' cells, which no action of the admin screens touches.
publicVars == <<navParams, browser, user_reg_no, registrationData, cameraVars,
                wizVars, netVars, pollVars, storeVars>>
createScreenVars == <<manualCoords, eventLocation, locationInput, createVars>>

MaxApproveInFlight == 2

EventIds == {"e1", "e2"}
AttemptIds == {"a1", "a2"}

\* The backend's failed attempts: a1 was made at e1, a2 at e2.
eventOf == [a \in AttemptIds |-> IF a = "a1" THEN "e1" ELSE "e2"]

\* The attempts loadData collects from the failed_attempts answers of the
\* events es, each tagged with the event it was fetched for.
attemptsWithEventInfo(es) ==
  {[attempt_id |-> a, event_id |-> eventOf[a]] : a \in {x \in AttemptIds : eventOf[x] \in es}}

attemptsMounted == route = "admin_failed_attempts"

\* const filteredAttempts
filteredAttempts ==
  IF selectedEvent = "all"
    THEN failedAttempts
    ELSE {x \in failedAttempts : x.event_id = selectedEvent}

\* loadData up to its first await, called from a render whose selectedEvent
\* is sel.
loadData(sel) ==
  /\ attemptsLoading' = TRUE
  /\ loadInFlight' = Append(loadInFlight, [sel |-> sel, phase |-> "events"])

\* First render of the screen and its two mount effects: the authentication
\* check with loadData, and the [selectedEvent] effect, which finds loading true.
AttemptsMount ==
  /\ route = "entering_failed_attempts"
  /\ route' = "admin_failed_attempts"
  /\ IF adminAuthenticated # "true"
       THEN /\ navPending' = "/admin/login"
            /\ UNCHANGED <<attemptsLoading, loadInFlight>>
       ELSE /\ loadData(selectedEvent)
            /\ UNCHANGED navPending
  /\ toast' = NULL
  /\ UNCHANGED <<publicVars, createScreenVars, dashVars, adminAuthenticated,
                 failedAttempts, events, selectedEvent, processingAttempt,
                 loadedFor, approveInFlight>>

\* onValueChange of the filter, the re-render and the [selectedEvent] effect.
SelectEvent ==
  /\ attemptsMounted
  /\ \E f \in ({"all"} \cup events) \ {selectedEvent} :
       /\ selectedEvent' = f
       /\ IF ~attemptsLoading
            THEN loadData(f)
            ELSE UNCHANGED <<attemptsLoading, loadInFlight>>
  /\ toast' = NULL
  /\ UNCHANGED <<route, publicVars, createScreenVars, dashVars, authVars,
                 failedAttempts, events, processingAttempt, loadedFor,
                 approveInFlight>>

\* The catch and finally blocks of loadData.
LoadFailed ==
  /\ toast' = "Error"
  /\ loadInFlight' = Tail(loadInFlight)
  /\ IF attemptsMounted
       THEN /\ attemptsLoading' = FALSE
            /\ loadedFor' = "failed"
       ELSE UNCHANGED <<attemptsLoading, loadedFor>>
  /\ UNCHANGED <<failedAttempts, events>>

\* The answer to the first active_events request of loadData: o is "ok",
\* "not_ok" or "network".
LoadEventsResponseWith(o) ==
  /\ loadInFlight # <<>>
  /\ Head(loadInFlight).phase = "events"
  /\ IF o = "network"
       THEN LoadFailed
       ELSE /\ events' = IF o = "ok" /\ attemptsMounted THEN EventIds ELSE events
            /\ loadInFlight' = <<[Head(loadInFlight) EXCEPT !.phase = "attempts"]>>
            /\ toast' = NULL
            /\ UNCHANGED <<failedAttempts, attemptsLoading, loadedFor>>
  /\ UNCHANGED <<route, publicVars, createScreenVars, dashVars, authVars,
                 selectedEvent, processingAttempt, approveInFlight>>

LoadEventsResponse == \E o \in {"ok", "not_ok", "network"} : LoadEventsResponseWith(o)

\* The rest of loadData, from the second request to the finally block.  es
\* are the events whose failed_attempts request was answered with ok; a
\* request that fails on the network outside the per-event try ends in catch.
LoadAttemptsResponseWith(es, network) ==
  /\ loadInFlight # <<>>
  /\ Head(loadInFlight).phase = "attempts"
  /\ LET sel == Head(loadInFlight).sel
     IN IF network
          THEN LoadFailed
          ELSE /\ es \subseteq (IF sel = "all" THEN EventIds ELSE {sel})
               /\ loadInFlight' = Tail(loadInFlight)
               /\ toast' = NULL
               /\ IF attemptsMounted
                    THEN /\ failedAttempts' = attemptsWithEventInfo(es)
                         /\ loadedFor' = sel
                         /\ attemptsLoading' = FALSE
                    ELSE UNCHANGED <<failedAttempts, loadedFor, attemptsLoading>>
               /\ UNCHANGED events
  /\ UNCHANGED <<route, publicVars, createScreenVars, dashVars, authVars,
                 selectedEvent, processingAttempt, approveInFlight>>

LoadAttemptsResponse ==
  \E es \in SUBSET EventIds, network \in BOOLEAN :
    /\ network => es = {}
    /\ LoadAttemptsResponseWith(es, network)

\* The disabled attribute of the Approve button of attempt x.
approveDisabled(x) == processingAttempt = x.attempt_id \/ x.event_id = NULL

\* The disabled attribute of the Decline button of attempt x.
declineDisabled(x) == processingAttempt = x.attempt_id

\* handleApprove up to its await.
handleApprove(attemptId) ==
  /\ processingAttempt' = attemptId
  /\ approveInFlight' = [approveInFlight EXCEPT ![attemptId] = @ + 1]

\* Click on Approve & Record Attendance of a listed attempt.
ApproveClick ==
  /\ attemptsMounted
  /\ ~attemptsLoading
  /\ \E x \in filteredAttempts :
       /\ ~approveDisabled(x)
       /\ approveInFlight[x.attempt_id] < MaxApproveInFlight
       /\ handleApprove(x.attempt_id)
  /\ toast' = NULL
  /\ UNCHANGED <<route, publicVars, createScreenVars, dashVars, authVars,
                 failedAttempts, events, attemptsLoading, selectedEvent,
                 loadInFlight, loadedFor>>

\* handleDecline: the two setProcessingAttempt calls are one batch.
handleDecline(attemptId) ==
  /\ failedAttempts' = {x \in failedAttempts : x.attempt_id # attemptId}
  /\ toast' = "Attempt Declined"
  /\ processingAttempt' = NULL

\* Click on Decline of a listed attempt.
DeclineClick ==
  /\ attemptsMounted
  /\ ~attemptsLoading
  /\ \E x \in filteredAttempts :
       /\ ~declineDisabled(x)
       /\ handleDecline(x.attempt_id)
  /\ UNCHANGED <<route, publicVars, createScreenVars, dashVars, authVars,
                 events, attemptsLoading, selectedEvent, loadInFlight,
                 loadedFor, approveInFlight>>

ApproveOutcomes == {"ok", "ok_no_json", "not_ok", "network"}

\* A handleApprove that takes the attempt off the list whatever the answer
\* and leaves processingAttempt alone.
handleApproveAnswerOptimistic(attemptId, o) ==
  /\ failedAttempts' = {x \in failedAttempts : x.attempt_id # attemptId}
  /\ UNCHANGED processingAttempt

\* handleApprove after its await, in a mounted screen: the answer o to the
\* approve_attendance request of attemptId.
handleApproveAnswer(attemptId, o) ==
  /\ failedAttempts' = IF o = "ok"
                         THEN {x \in failedAttempts : x.attempt_id # attemptId}
                         ELSE failedAttempts
  /\ processingAttempt' = NULL

\* The answer o to an approve_attendance request of attempt a.
ApproveResponseWith(a, o) ==
  /\ approveInFlight[a] > 0
  /\ approveInFlight' = [approveInFlight EXCEPT ![a] = @ - 1]
  /\ toast' = IF o = "ok" THEN "Attendance Approved" ELSE "Error"
  /\ IF attemptsMounted
       THEN handleApproveAnswer(a, o)
       ELSE UNCHANGED <<failedAttempts, processingAttempt>>
  /\ UNCHANGED <<route, publicVars, createScreenVars, dashVars, authVars,
                 events, attemptsLoading, selectedEvent, loadInFlight,
                 loadedFor>>

ApproveResponse == \E a \in AttemptIds, o \in ApproveOutcomes : ApproveResponseWith(a, o)

\* Back to Dashboard.
AttemptsLeave ==
  /\ attemptsMounted
  /\ route' = "/admin/dashboard"
  /\ navPending' = NULL
  /\ toast' = NULL
  /\ UNCHANGED <<publicVars, createScreenVars, dashVars, attemptVars,
                 adminAuthenticated>>

\* The navigation of a router.push is done: the screen is unmounted.
NavigationDone ==
  /\ navPending # NULL
  /\ route' = navPending
  /\ navPending' = NULL
  /\ toast' = NULL
  /\ UNCHANGED <<publicVars, createScreenVars, dashVars, attemptVars,
                 adminAuthenticated>>

\* handleLogout of a dashboard open in another tab of the browser.
LogoutElsewhere ==
  /\ adminAuthenticated = "true"
  /\ adminAuthenticated' = NULL
  /\ UNCHANGED <<envVars, toast, cameraVars, wizVars, netVars, pollVars,
                 storeVars, createScreenVars, dashVars, attemptVars, navPending>>

\* ------------------------------------------------------- admin: dashboard
PastEventIds == {"p1"}
FaceCounts == {0, 3}

\* The count field of the backend's failed_attempts answer for an event.
failedCountOf == [e \in EventIds |-> IF e = "e1" THEN 2 ELSE 1]

attemptVarsAndCreate == <<createScreenVars, attemptVars>>

dashMounted == route = "admin_dashboard"

\* The loop over activeEvents of fetchDashboardData: es are the events it
\* iterates, oks those whose failed_attempts request is answered with ok.
RECURSIVE totalFailedAttempts(_, _)
totalFailedAttempts(es, oks) ==
  IF es = {}
    THEN 0
    ELSE LET event == CHOOSE e \in es : TRUE
         IN (IF event \in oks THEN failedCountOf[event] ELSE 0)
              + totalFailedAttempts(es \ {event}, oks)

\* fetchDashboardData up to its first await, called from a render whose
\* activeEvents is es.
fetchDashboardData(es) ==
  /\ dashLoading' = TRUE
  /\ dashFetch' = Append(dashFetch, [phase |-> "active", activeEvents |-> es])

\* First render of the dashboard and its mount effect.
DashMount ==
  /\ route = "entering_dashboard"
  /\ route' = "admin_dashboard"
  /\ IF adminAuthenticated # "true"
       THEN /\ navPending' = "/admin/login"
            /\ UNCHANGED <<dashLoading, dashFetch>>
       ELSE /\ fetchDashboardData(activeEvents)
            /\ UNCHANGED navPending
  /\ toast' = NULL
  /\ UNCHANGED <<publicVars, attemptVarsAndCreate, adminAuthenticated,
                 activeEvents, pastEvents, faceCount, failedAttemptsCount>>

\* The catch and finally blocks of fetchDashboardData.
DashFetchFailed ==
  /\ toast' = "Error"
  /\ dashFetch' = Tail(dashFetch)
  /\ dashLoading' = IF dashMounted THEN FALSE ELSE dashLoading
  /\ UNCHANGED <<activeEvents, pastEvents, faceCount, failedAttemptsCount>>

\* The answer to the active_events request: o is "ok", "not_ok" or "network".
DashActiveResponseWith(o, es) ==
  /\ dashFetch # <<>>
  /\ Head(dashFetch).phase = "active"
  /\ IF o = "network"
       THEN DashFetchFailed
       ELSE /\ activeEvents' = IF o = "ok" /\ dashMounted THEN es ELSE activeEvents
            /\ dashFetch' = <<[Head(dashFetch) EXCEPT !.phase = "past"]>>
            /\ toast' = NULL
            /\ UNCHANGED <<pastEvents, faceCount, failedAttemptsCount, dashLoading>>
  /\ UNCHANGED <<route, publicVars, attemptVarsAndCreate, authVars>>

DashActiveResponse ==
  \E o \in {"ok", "not_ok", "network"}, es \in SUBSET EventIds :
    /\ o # "ok" => es = {}
    /\ DashActiveResponseWith(o, es)

\* The answer to the past_events request.
DashPastResponseWith(o, es) ==
  /\ dashFetch # <<>>
  /\ Head(dashFetch).phase = "past"
  /\ IF o = "network"
       THEN DashFetchFailed
       ELSE /\ pastEvents' = IF o = "ok" /\ dashMounted THEN es ELSE pastEvents
            /\ dashFetch' = <<[Head(dashFetch) EXCEPT !.phase = "faces"]>>
            /\ toast' = NULL
            /\ UNCHANGED <<activeEvents, faceCount, failedAttemptsCount, dashLoading>>
  /\ UNCHANGED <<route, publicVars, attemptVarsAndCreate, authVars>>

DashPastResponse ==
  \E o \in {"ok", "not_ok", "network"}, es \in SUBSET PastEventIds :
    /\ o # "ok" => es = {}
    /\ DashPastResponseWith(o, es)

\* The answer to the faces/count request and the rest of fetchDashboardData:
\* the loop over the activeEvents of the render that called it, whose
\* failed_attempts requests are answered with ok for the events oks, then
\* setFailedAttemptsCount and the finally block.
DashFacesResponseWith(o, n, oks) ==
  /\ dashFetch # <<>>
  /\ Head(dashFetch).phase = "faces"
  /\ IF o = "network"
       THEN DashFetchFailed
       ELSE /\ dashFetch' = Tail(dashFetch)
            /\ toast' = NULL
            /\ IF dashMounted
                 THEN /\ faceCount' = IF o = "ok" THEN n ELSE faceCount
                      /\ failedAttemptsCount' =
                           totalFailedAttempts(Head(dashFetch).activeEvents, oks)
                      /\ dashLoading' = FALSE
                 ELSE UNCHANGED <<faceCount, failedAttemptsCount, dashLoading>>
            /\ UNCHANGED <<activeEvents, pastEvents>>
  /\ UNCHANGED <<route, publicVars, attemptVarsAndCreate, authVars>>

DashFacesResponse ==
  \E o \in {"ok", "not_ok", "network"}, n \in FaceCounts, oks \in SUBSET EventIds :
    /\ o # "ok" => n = 0
    /\ o = "network" => oks = {}
    /\ DashFacesResponseWith(o, n, oks)

\* handleLogout
DashLogout ==
  /\ dashMounted
  /\ ~dashLoading
  /\ adminAuthenticated' = NULL
  /\ navPending' = "/"
  /\ toast' = NULL
  /\ UNCHANGED <<route, publicVars, attemptVarsAndCreate, dashVars>>

\* A link of the dashboard to another admin screen.
DashLeave ==
  /\ dashMounted
  /\ ~dashLoading
  /\ route' = "/admin/failed-attempts"
  /\ navPending' = NULL
  /\ toast' = NULL
  /\ UNCHANGED <<publicVars, attemptVarsAndCreate, dashVars, adminAuthenticated>>

\* --------------------------------------------------- admin: create event
\* What the fields of the form can hold.  The Attendance Radius field is an
\* <input type="number">: the empty text or a valid floating-point number.
EventNames == {"", "Tech Fest"}
EventDescs == {"", "Annual fest"}
PerimeterTexts == { <<>>,
                    <<"1", "0", "0">>,
                    <<"0">>,
                    <<"1", "0", "0", "0", "1">>,
                    <<"1", "2", ".", "5">>,
                    <<"1", "e", "3">> }
DateTexts == {"", "2030-01-01", "2030-01-02"}
TimeTexts == {"", "09:00", "10:00"}

\* The position getCurrentPosition reports.
DevicePosition == [lat |-> Number(FALSE, 130827, -4), lng |-> Number(FALSE, 802707, -4)]

\* new Date(`${date}T${time}`) as minutes since 2030-01-01T00:00, for the
\* texts of DateTexts and TimeTexts.
dateTime(date, time) ==
  (IF date = "2030-01-02" THEN 1440 ELSE 0) + (IF time = "10:00" THEN 600 ELSE 540)

\* The scanner of parseInt at the start of a text.
IntScanStart == [phase |-> "white", neg |-> FALSE, mant |-> 0, digits |-> 0]

\* parseInt's scan of the text t from position i: white space, a sign, then
\* decimal digits up to the first character that is not a digit.
RECURSIVE scanInt(_, _, _)
scanInt(t, i, s) ==
  IF i > Len(t) THEN s
  ELSE
    CASE s.phase = "white" ->
           IF t[i] = " " THEN scanInt(t, i + 1, s)
           ELSE scanInt(t, i, [s EXCEPT !.phase = "sign"])
      [] s.phase = "sign" ->
           IF t[i] \in {"+", "-"}
             THEN scanInt(t, i + 1, [s EXCEPT !.phase = "int", !.neg = (t[i] = "-")])
             ELSE scanInt(t, i, [s EXCEPT !.phase = "int"])
      [] OTHER ->
           IF t[i] \in Digits
             THEN scanInt(t, i + 1, [s EXCEPT !.mant = @ * 10 + DigitVal(t[i]),
                                              !.digits = @ + 1])
             ELSE s

\* parseInt(t): the integer of the longest prefix of digits, NaN without one.
parseInt(t) ==
  LET s == scanInt(t, 1, IntScanStart)
  IN IF s.digits = 0 THEN NaN ELSE Number(s.neg, s.mant, 0)

\* The browser's validation of <input type="number" min="1" max="10000"
\* required> (step 1 from min): no valueMissing, rangeUnderflow,
\* rangeOverflow or stepMismatch.
perimeterValid ==
  LET v == parseFloat(perimeter)
  IN /\ perimeter # <<>>
     /\ v.kind = "num"
     /\ ~lessThan(v, 1)
     /\ ~greaterThan(v, 10000)
     /\ v.p >= 0

\* The browser's validation of the form before it raises the submit event:
\* the required attributes, the number field, and min={startDate} of the End
\* Date field (the dates of DateTexts are not before today).
formValid ==
  /\ eventName # ""
  /\ eventDesc # ""
  /\ perimeterValid
  /\ startDate # ""
  /\ startTime # ""
  /\ endDate # ""
  /\ endTime # ""
  /\ dateTime(endDate, "09:00") >= dateTime(startDate, "09:00")

\* onChange of the Event Name field.
SetEventName ==
  /\ adminMounted
  /\ \E t \in EventNames \ {eventName} : eventName' = t
  /\ toast' = NULL
  /\ UNCHANGED <<route, publicVars, manualCoords, eventLocation, locationInput,
                 eventDesc, perimeter, startDate, startTime,
                 endDate, endTime, gettingLocation, createSubmitting,
                 createInFlight, authVars, attemptVars, dashVars>>

\* onChange of the Event Description field.
SetEventDesc ==
  /\ adminMounted
  /\ \E t \in EventDescs \ {eventDesc} : eventDesc' = t
  /\ toast' = NULL
  /\ UNCHANGED <<route, publicVars, manualCoords, eventLocation, locationInput,
                 eventName, perimeter, startDate, startTime,
                 endDate, endTime, gettingLocation, createSubmitting,
                 createInFlight, authVars, attemptVars, dashVars>>

\* onChange of the Attendance Radius field.
SetPerimeter ==
  /\ adminMounted
  /\ \E t \in PerimeterTexts \ {perimeter} : perimeter' = t
  /\ toast' = NULL
  /\ UNCHANGED <<route, publicVars, manualCoords, eventLocation, locationInput,
                 eventName, eventDesc, startDate, startTime,
                 endDate, endTime, gettingLocation, createSubmitting,
                 createInFlight, authVars, attemptVars, dashVars>>

\* onChange of the Start Date field.
SetStartDate ==
  /\ adminMounted
  /\ \E t \in DateTexts \ {startDate} : startDate' = t
  /\ toast' = NULL
  /\ UNCHANGED <<route, publicVars, manualCoords, eventLocation, locationInput,
                 eventName, eventDesc, perimeter, startTime,
                 endDate, endTime, gettingLocation, createSubmitting,
                 createInFlight, authVars, attemptVars, dashVars>>

\* onChange of the Start Time field.
SetStartTime ==
  /\ adminMounted
  /\ \E t \in TimeTexts \ {startTime} : startTime' = t
  /\ toast' = NULL
  /\ UNCHANGED <<route, publicVars, manualCoords, eventLocation, locationInput,
                 eventName, eventDesc, perimeter, startDate,
                 endDate, endTime, gettingLocation, createSubmitting,
                 createInFlight, authVars, attemptVars, dashVars>>

\* onChange of the End Date field.
SetEndDate ==
  /\ adminMounted
  /\ \E t \in DateTexts \ {endDate} : endDate' = t
  /\ toast' = NULL
  /\ UNCHANGED <<route, publicVars, manualCoords, eventLocation, locationInput,
                 eventName, eventDesc, perimeter, startDate,
                 startTime, endTime, gettingLocation, createSubmitting,
                 createInFlight, authVars, attemptVars, dashVars>>

\* onChange of the End Time field.
SetEndTime ==
  /\ adminMounted
  /\ \E t \in TimeTexts \ {endTime} : endTime' = t
  /\ toast' = NULL
  /\ UNCHANGED <<route, publicVars, manualCoords, eventLocation, locationInput,
                 eventName, eventDesc, perimeter, startDate,
                 startTime, endDate, gettingLocation, createSubmitting,
                 createInFlight, authVars, attemptVars, dashVars>>

\* First render of CreateEvent and its mount effect.
CreateMount ==
  /\ route = "entering_create"
  /\ route' = "admin_create"
  /\ navPending' = IF adminAuthenticated # "true" THEN "/admin/login" ELSE navPending
  /\ toast' = NULL
  /\ UNCHANGED <<publicVars, createScreenVars, attemptVars, dashVars,
                 adminAuthenticated>>

\* Click on Get Current Location in a browser with geolocation.
GetCurrentLocation ==
  /\ adminMounted
  /\ ~gettingLocation
  /\ gettingLocation' = TRUE
  /\ toast' = NULL
  /\ UNCHANGED <<route, publicVars, manualCoords, eventLocation, locationInput,
                 eventName, eventDesc, perimeter, startDate, startTime, endDate,
                 endTime, createSubmitting, createInFlight, authVars,
                 attemptVars, dashVars>>

\* The success callback of getCurrentPosition.
LocationObtained ==
  /\ gettingLocation
  /\ gettingLocation' = FALSE
  /\ toast' = "Location Obtained"
  /\ IF adminMounted
       THEN /\ eventLocation' = DevicePosition
            /\ locationInput' = [empty |-> FALSE, lat |-> toFixed6(DevicePosition.lat),
                                  lng |-> toFixed6(DevicePosition.lng)]
       ELSE UNCHANGED <<eventLocation, locationInput>>
  /\ UNCHANGED <<route, publicVars, manualCoords,
                 eventName, eventDesc, perimeter, startDate, startTime, endDate,
                 endTime, createSubmitting, createInFlight, authVars,
                 attemptVars, dashVars>>

\* The error callback of getCurrentPosition.
LocationFailed ==
  /\ gettingLocation
  /\ gettingLocation' = FALSE
  /\ toast' = "Location Error"
  /\ UNCHANGED <<route, publicVars, manualCoords, eventLocation, locationInput,
                 eventName, eventDesc, perimeter, startDate, startTime, endDate,
                 endTime, createSubmitting, createInFlight, authVars,
                 attemptVars, dashVars>>

\* The checks of a handleSubmit that does not compare the two times.
handleSubmitRefusalNoTimeRange ==
  IF \/ eventName = "" \/ eventDesc = "" \/ eventLocation = NoEventLocation
     \/ perimeter = <<>> \/ startDate = "" \/ startTime = ""
     \/ endDate = "" \/ endTime = ""
    THEN "Missing Information"
  ELSE IF \/ isNaN(parseInt(perimeter)) \/ lessThan(parseInt(perimeter), 1)
          \/ greaterThan(parseInt(perimeter), 10000)
    THEN "Invalid Perimeter"
  ELSE NULL

\* The checks of handleSubmit: the title of the toast of the first check that
\* fails, null when all pass.
handleSubmitRefusal ==
  IF \/ eventName = "" \/ eventDesc = "" \/ eventLocation = NoEventLocation
     \/ perimeter = <<>> \/ startDate = "" \/ startTime = ""
     \/ endDate = "" \/ endTime = ""
    THEN "Missing Information"
  ELSE IF dateTime(endDate, endTime) <= dateTime(startDate, startTime)
    THEN "Invalid Time Range"
  ELSE IF \/ isNaN(parseInt(perimeter)) \/ lessThan(parseInt(perimeter), 1)
          \/ greaterThan(parseInt(perimeter), 10000)
    THEN "Invalid Perimeter"
  ELSE NULL

\* handleSubmit up to its await.
handleSubmit ==
  /\ toast' = handleSubmitRefusal
  /\ IF handleSubmitRefusal # NULL
       THEN UNCHANGED <<createSubmitting, createInFlight>>
       ELSE /\ createSubmitting' = TRUE
            /\ createInFlight' = createInFlight + 1

\* The disabled attribute of the Create Event button.
createDisabled == createSubmitting \/ eventLocation = NoEventLocation

\* Click on Create Event: the browser validates the form and raises submit.
FormSubmit ==
  /\ adminMounted
  /\ ~createDisabled
  /\ formValid
  /\ handleSubmit
  /\ UNCHANGED <<route, publicVars, manualCoords, eventLocation, locationInput,
                 eventName, eventDesc, perimeter, startDate, startTime, endDate,
                 endTime, gettingLocation, authVars, attemptVars, dashVars>>

CreateOutcomes == {"created", "exists", "not_ok", "network"}

\* handleSubmit after its await: the answer o to the create_event request.
CreateResponseWith(o) ==
  /\ createInFlight > 0
  /\ createInFlight' = createInFlight - 1
  /\ toast' = CASE o = "created" -> "Event Created"
                [] o = "exists" -> "Event Exists"
                [] OTHER -> "Creation Failed"
  /\ navPending' = IF o = "created" THEN "/admin/dashboard" ELSE navPending
  /\ createSubmitting' = IF adminMounted THEN FALSE ELSE createSubmitting
  /\ UNCHANGED <<route, publicVars, manualCoords, eventLocation, locationInput,
                 eventName, eventDesc, perimeter, startDate, startTime, endDate,
                 endTime, gettingLocation, adminAuthenticated, attemptVars,
                 dashVars>>

CreateResponse == \E o \in CreateOutcomes : CreateResponseWith(o)

\* Back to Dashboard.
CreateLeave ==
  /\ adminMounted
  /\ route' = "/admin/dashboard"
  /\ navPending' = NULL
  /\ toast' = NULL
  /\ UNCHANGED <<publicVars, createScreenVars, attemptVars, dashVars,
                 adminAuthenticated>>

\* ------------------------------------------------------------ specifications
\* The useState initial values of the three admin screens.
CreateIdle ==
  /\ manualCoords = [lat |-> <<>>, lng |-> <<>>]
  /\ eventLocation = NoEventLocation
  /\ locationInput = NoLocationInput
  /\ eventName = ""
  /\ eventDesc = ""
  /\ perimeter = <<"1", "0", "0">>
  /\ startDate = ""
  /\ startTime = ""
  /\ endDate = ""
  /\ endTime = ""
  /\ gettingLocation = FALSE
  /\ createSubmitting = FALSE
  /\ createInFlight = 0

AttemptsIdle ==
  /\ failedAttempts = {}
  /\ events = {}
  /\ attemptsLoading = TRUE
  /\ selectedEvent = "all"
  /\ processingAttempt = NULL
  /\ loadInFlight = <<>>
  /\ loadedFor = NULL
  /\ approveInFlight = [a \in AttemptIds |-> 0]

DashIdle ==
  /\ activeEvents = {}
  /\ pastEvents = {}
  /\ dashLoading = TRUE
  /\ faceCount = 0
  /\ failedAttemptsCount = 0
  /\ dashFetch = <<>>

AdminIdle ==
  /\ CreateIdle
  /\ AttemptsIdle
  /\ DashIdle
  /\ navPending = NULL

StoreIdle ==
  /\ sStatus = "loading"
  /\ attendanceData = NULL
  /\ errorDetails = NULL
  /\ sMessage = ""
  /\ searchParams = NULL
  /\ storeReads = 0

PollIdle ==
  /\ status = "loading"
  /\ userData = NoData
  /\ message = ""
  /\ pollingCount = 0
  /\ pollTimer = FALSE
  /\ statusInFlight = NoQueries
  /\ queriesIssued = 0

WizardIdle ==
  /\ step = 1
  /\ photoTaken = FALSE
  /\ cameraActive = FALSE
  /\ stream = NoStream
  /\ selfieData = NULL
  /\ location = NULL
  /\ locationLoading = FALSE
  /\ locationError = ""
  /\ submitting = FALSE
  /\ videoSrc = NoStream
  /\ liveStreams = {}
  /\ stopCount = [s \in StreamIds |-> 0]
  /\ acquired = 0
  /\ camTimers = 0
  /\ geoPending = 0
  /\ regInFlight = 0

\* The registration screen is opened: first render, first effects.
WizardInit ==
  /\ route = "register"
  /\ navParams = NoParams
  /\ browser \in {"full", "nocamera", "nogeo"}
  /\ user_reg_no \in {NULL, "FAC123"}
  /\ registrationData = NULL
  /\ WizardIdle
  /\ camPending = IF cameraSupported THEN 1 ELSE 0
  /\ toast = IF cameraSupported THEN NULL ELSE "Camera not supported"
  /\ PollIdle
  /\ statusOrphans = [slow |-> 0, quiet |-> 0]
  /\ StoreIdle
  /\ AdminIdle
  /\ adminAuthenticated = NULL

\* The confirmation screen is opened by its URL: first render, first effect.
PollInit ==
  /\ route = "confirmation"
  /\ navParams = NoParams
  /\ browser = "full"
  /\ user_reg_no \in {NULL, "FAC123"}
  /\ registrationData = NULL
  /\ WizardIdle
  /\ camPending = 0
  /\ toast = NULL
  /\ userData = NoData
  /\ pollingCount = 0
  /\ statusOrphans = [slow |-> 0, quiet |-> 0]
  /\ status = IF user_reg_no = NULL THEN "error" ELSE "loading"
  /\ message = IF user_reg_no = NULL
                 THEN "User registration number not found. Please log in again."
                 ELSE ""
  /\ pollTimer = (user_reg_no # NULL)
  /\ statusInFlight = IF user_reg_no = NULL THEN NoQueries
                      ELSE checkAttendanceStatus(NoQueries, 0)
  /\ queriesIssued = IF user_reg_no = NULL THEN 0 ELSE 1
  /\ StoreIdle
  /\ AdminIdle
  /\ adminAuthenticated = NULL

\* The localStorage confirmation screen is opened: its first render.
StoreInit ==
  /\ route = "confirmation_store"
  /\ navParams = NoParams
  /\ browser = "full"
  /\ user_reg_no \in {NULL, "FAC123"}
  /\ registrationData \in {NULL} \cup StoredTexts
  /\ searchParams \in {NULL, "FAC123"}
  /\ WizardIdle
  /\ camPending = 0
  /\ toast = NULL
  /\ PollIdle
  /\ statusOrphans = [slow |-> 0, quiet |-> 0]
  /\ sStatus = "loading"
  /\ attendanceData = NULL
  /\ errorDetails = NULL
  /\ sMessage = ""
  /\ storeReads = 0
  /\ AdminIdle
  /\ adminAuthenticated = NULL

\* The create-event screen is opened by an authenticated admin.
AdminInit ==
  /\ route = "admin_create"
  /\ navParams = NoParams
  /\ browser = "full"
  /\ user_reg_no = NULL
  /\ registrationData = NULL
  /\ WizardIdle
  /\ camPending = 0
  /\ toast = NULL
  /\ PollIdle
  /\ statusOrphans = [slow |-> 0, quiet |-> 0]
  /\ StoreIdle
  /\ AdminIdle
  /\ adminAuthenticated = "true"

WizardNext ==
  \/ TakePhoto \/ RetakePhoto \/ CamTimerFire \/ CamGranted \/ CamDenied
  \/ NextStep \/ PrevStep \/ GetLocation \/ GeoSuccess \/ GeoError
  \/ SubmitClick \/ RegResponse

PollNext == StatusResponse \/ PollTick \/ OrphanStatusResponse

\* The registration screen, up to the mount of the screen it navigates to.
Next == WizardNext \/ NavigateAway
Spec == WizardInit /\ [][Next]_vars

\* The confirmation screen.
SpecPoller == PollInit /\ [][PollNext \/ NavigateAway]_vars

\* The registration screen with nextStep and submitAttendance also called
\* directly.
SpecHandler == WizardInit /\ [][Next \/ SubmitDirect \/ NextDirect]_vars

\* The registration screen when the user grants every camera request: a
\* pending getUserMedia promise is resolved in the end.
GrantedNext ==
  \/ TakePhoto \/ RetakePhoto \/ CamTimerFire \/ CamGranted
  \/ NextStep \/ PrevStep \/ GetLocation \/ GeoSuccess \/ GeoError
  \/ SubmitClick \/ RegResponse \/ NavigateAway
SpecGranted == WizardInit /\ [][GrantedNext]_vars /\ WF_vars(CamGranted)

\* The confirmation screen when every status query is answered pending.
AllPendingNext ==
  \/ StatusResponseWith("pending") \/ OrphanStatusResponseWith("pending")
  \/ PollTick \/ NavigateAway
SpecAllPending == PollInit /\ [][AllPendingNext]_vars

\* The localStorage confirmation screen.
StoreNext == StoreMountEffect \/ SearchParamsChange \/ StoreReload \/ StoreUnmount
SpecStore == StoreInit /\ [][StoreNext]_vars

\* The create-event screen's manual coordinates.
ManualNext == SetManualCoords \/ HandleManualClick \/ ManualDirect
SpecManual == AdminInit /\ [][ManualNext]_vars

\* The admin opens the failed-attempts screen, signed in or not.
AttemptsInit ==
  /\ route = "entering_failed_attempts"
  /\ navParams = NoParams
  /\ browser = "full"
  /\ user_reg_no = NULL
  /\ registrationData = NULL
  /\ WizardIdle
  /\ camPending = 0
  /\ toast = NULL
  /\ PollIdle
  /\ statusOrphans = [slow |-> 0, quiet |-> 0]
  /\ StoreIdle
  /\ AdminIdle
  /\ adminAuthenticated \in {"true", NULL}

AttemptsNext ==
  \/ AttemptsMount \/ SelectEvent \/ LoadEventsResponse \/ LoadAttemptsResponse
  \/ ApproveClick \/ DeclineClick \/ ApproveResponse \/ AttemptsLeave
  \/ NavigationDone \/ LogoutElsewhere
SpecAttempts == AttemptsInit /\ [][AttemptsNext]_vars

\* The admin opens the dashboard, signed in or not.
DashInit ==
  /\ route = "entering_dashboard"
  /\ navParams = NoParams
  /\ browser = "full"
  /\ user_reg_no = NULL
  /\ registrationData = NULL
  /\ WizardIdle
  /\ camPending = 0
  /\ toast = NULL
  /\ PollIdle
  /\ statusOrphans = [slow |-> 0, quiet |-> 0]
  /\ StoreIdle
  /\ AdminIdle
  /\ adminAuthenticated \in {"true", NULL}

DashNext ==
  \/ DashMount \/ DashActiveResponse \/ DashPastResponse \/ DashFacesResponse
  \/ DashLogout \/ DashLeave \/ NavigationDone \/ LogoutElsewhere
SpecDashboard == DashInit /\ [][DashNext]_vars

\* The admin opens the create-event screen, signed in or not.
CreateInit ==
  /\ route = "entering_create"
  /\ navParams = NoParams
  /\ browser = "full"
  /\ user_reg_no = NULL
  /\ registrationData = NULL
  /\ WizardIdle
  /\ camPending = 0
  /\ toast = NULL
  /\ PollIdle
  /\ statusOrphans = [slow |-> 0, quiet |-> 0]
  /\ StoreIdle
  /\ AdminIdle
  /\ adminAuthenticated \in {"true", NULL}

CreateNext ==
  \/ CreateMount \/ SetEventName \/ SetEventDesc \/ SetPerimeter
  \/ SetStartDate \/ SetStartTime \/ SetEndDate \/ SetEndTime
  \/ GetCurrentLocation \/ LocationObtained \/ LocationFailed
  \/ FormSubmit \/ CreateResponse \/ CreateLeave \/ NavigationDone
  \/ LogoutElsewhere
SpecCreate == CreateInit /\ [][CreateNext]_vars

\* -------------------------------------------------------------------- claims

\* C1: once the Capture step is left (the wizard shows step 2), no camera
\* stream acquired for the step is still live, and no stream was stopped twice.
C1_CameraReleasedOnce ==
  /\ (wizMounted /\ step = 2) => liveStreams = {}
  /\ \A s \in StreamIds : stopCount[s] <= 1

C3_OneQueryOutstanding == inFlight(statusInFlight) <= 1

\* C4: when every status query is answered pending, no more queries than
\* the budget are sent, and the status stays Pending (never Error).
C4_PendingBudget ==
  user_reg_no # NULL =>
    /\ queriesIssued <= PollBudget
    /\ status \in {"loading", "pending"}

\* C5: an HTTP 403 answer to register_attendance returns the mounted wizard
\* to the Capture step with the captured image cleared and the camera
\* requested again.
C5_ForbiddenReturnsToCapture ==
  [][ (wizMounted /\ RegResponseWith("http403"))
      => (/\ step' = 1
          /\ selfieData' = NULL /\ ~photoTaken'
          /\ camPending' + camTimers' > camPending + camTimers) ]_vars

\* C6: an HTTP 404 answer to a status query moves the poller to Error with
\* the not-found message, and no status query is sent after it.
C6_NotFoundStopsPolling ==
  [][ StatusResponseWith("http404")
      => (/\ status' = "error"
          /\ message' = "Event not found. Please check the event ID."
          /\ queriesIssued' = queriesIssued) ]_vars

\* C7: the confirmation screen reached from a successful submission shows,
\* once it is past Loading, Registered with the name and the registration
\* identifier the wizard handed over.
C7_HandOver ==
  (pollMounted /\ navParams.status = "success" /\ status # "loading")
    => /\ status = "registered"
       /\ userData = [name |-> navParams.name, reg_no |-> navParams.regNo]

\* C8: at most one register_attendance request of the wizard is in flight,
\* and while one is in flight the mounted wizard has submitting set, which
\* disables the submit button.
C8_OneSubmission ==
  /\ regInFlight <= 1
  /\ (wizMounted /\ regInFlight > 0) => (submitting /\ submitDisabled)

\* A request is in flight at step 2 with the image and the location present.
C8_Witness ==
  /\ wizMounted /\ step = 2 /\ regInFlight = 1
  /\ photoTaken /\ location # NULL

\* C9: the record under registrationData is read once and is gone from the
\* storage as soon as it has been read.
C9_ReadOnceThenDeleted ==
  /\ storeReads <= 1
  /\ storeReads >= 1 => registrationData = NULL

\* C10: an answer that arrives after its screen was unmounted changes
\* nothing: no navigation, no toast, no state update.
C10_LateResultDiscarded ==
  [][ ((~wizMounted /\ RegResponse) \/ OrphanStatusResponse)
      => (/\ route' = route
          /\ toast' = NULL
          /\ UNCHANGED <<navParams, wizVars, status, userData, message,
                         pollingCount>>) ]_vars

\* C11: once the registration screen is unmounted, no camera stream it
\* acquired is live, whether the stream was granted before the unmount or by
\* a timer or a camera request that was pending at the unmount.
C11_UnmountReleasesCamera == ~wizMounted => liveStreams = {}

\* C12: after the confirmation screen is torn down its interval is not
\* armed, and no status query is sent on its behalf.
C12_NoTickAfterTeardown ==
  [][ ~pollMounted => (~pollTimer /\ queriesIssued' = queriesIssued) ]_vars

\* The screen was torn down while its interval was armed and its first query
\* unanswered.
C12_Witness ==
  /\ route = "events" /\ ~pollTimer
  /\ queriesIssued = 1 /\ statusOrphans.quiet = 1

\* C13: a refused transition (nextStep without an accepted photo,
\* submitAttendance without a location) completes with its validation
\* message only: the step, the data accepted so far, the camera and the
\* requests in flight are as before.
C13_RefusalKeepsState ==
  [][ ((NextDirect /\ step = 1 /\ ~photoTaken)
        \/ ((SubmitDirect \/ SubmitClick) /\ location = NULL))
      => (/\ toast' = (IF step = 1 THEN "Photo Required"
                                   ELSE "Missing Information")
          /\ UNCHANGED <<wizVars, cameraVars, netVars, route, navParams>>) ]_vars

\* nextStep ran at step 1 without an accepted photo, the camera held, and
\* refused.
C13_Witness ==
  /\ wizMounted /\ step = 1 /\ ~photoTaken
  /\ stream # NoStream /\ stream \in liveStreams
  /\ toast = "Photo Required"

\* C14: while the wizard shows the Locate step a captured image is
\* accepted: photoTaken is set and selfieData holds the image.
C14_LocateHasImage ==
  (wizMounted /\ step = 2) => (photoTaken /\ selfieData # NULL)

\* The wizard shows Locate with a photo taken, after a retake acquired a
\* second stream and Next stopped it.
C14_Witness ==
  /\ wizMounted /\ step = 2 /\ photoTaken
  /\ acquired = 2 /\ stopCount[2] = 1

\* C15: prevStep shows the Capture step with the captured image cleared and
\* the camera requested again; and a mounted wizard at the Capture step that
\* holds no stream and has a camera request pending which can be granted
\* comes to hold a live stream at the Capture step, unless it is unmounted.
C15_BackClearsAndReacquires ==
  /\ [][ PrevStep => (/\ step' = 1
                      /\ ~photoTaken' /\ selfieData' = NULL
                      /\ stream' = NoStream
                      /\ camPending' > camPending) ]_vars
  /\ (wizMounted /\ step = 1 /\ stream = NoStream /\ camPending > 0
        /\ acquired < MaxStreams)
       ~> (\/ ~wizMounted
           \/ (step = 1 /\ cameraActive /\ stream # NoStream
                 /\ stream \in liveStreams))

\* Back at the Capture step after prevStep: the first stream was stopped by
\* nextStep, the image is cleared and the second stream is held and live.
C15_Witness ==
  /\ wizMounted /\ step = 1 /\ ~photoTaken /\ selfieData = NULL
  /\ stopCount[1] = 1 /\ stream = 2 /\ cameraActive /\ 2 \in liveStreams

\* C16: a submitAttendance call that passes validation sends exactly one
\* register_attendance request; the number of requests in flight grows only
\* by a click on the submit button, and the continuation that handles an
\* answer, failed or not, sends none.
C16_OneCallNoRetry ==
  [][ /\ (SubmitClick /\ photoTaken /\ selfieData # NULL /\ location # NULL)
          => regInFlight' = regInFlight + 1
      /\ (regInFlight' > regInFlight) => SubmitClick
      /\ RegResponse => regInFlight' = regInFlight - 1 ]_vars

\* A failed submission was handled: the error toast is shown at step 2, the
\* button is enabled again and no request is in flight.
C16_Witness ==
  /\ wizMounted /\ step = 2 /\ toast = "Submission Error"
  /\ ~submitting /\ regInFlight = 0

\* C17: every answer to register_attendance that is no HTTP success (4xx,
\* 5xx, network failure) leaves a Failed result for the confirmation screen:
\* in the query string of the navigation to it, or in localStorage.
C17_FailureStored ==
  [][ \A o \in FailedOutcomes :
        (wizMounted /\ RegResponseWith(o))
          => (\/ (route' = "confirmation" /\ navParams'.status = "error")
              \/ registrationData' # NULL) ]_vars

\* C18 (as stated): an HTTP success with an unrecognized outcome is handed to
\* the confirmation screen as an error with the message "unexpected status",
\* without the success toast.
C18_UnexpectedStatusMessage ==
  [][ RegResponseWith("unexpected")
      => (/\ route' = "confirmation"
          /\ navParams'.status = "error"
          /\ navParams'.message = "unexpected status"
          /\ toast' # "Attendance Registered") ]_vars

\* C18 (amended): an HTTP success with an unrecognized outcome is handed to
\* the confirmation screen as an error with the message of the answer or,
\* when it has none, "Unexpected error occurred", without the success toast.
C18_UnexpectedIsError ==
  [][ RegResponseWith("unexpected")
      => (/\ route' = "confirmation"
          /\ navParams'.status = "error"
          /\ navParams'.message \in
               (ServerMessages \ {NULL}) \cup {"Unexpected error occurred"}
          /\ navParams'.name = NULL /\ navParams'.regNo = NULL
          /\ toast' # "Attendance Registered") ]_vars

\* The wizard navigated to the confirmation screen with the fallback message
\* of an unrecognized outcome.
C18_Witness ==
  /\ route = "confirmation"
  /\ navParams.status = "error"
  /\ navParams.message = "Unexpected error occurred"

\* C19: handleManualCoordinates sets the event location to the two parsed
\* values if and only if both are finite numbers with the latitude in
\* [-90, 90] and the longitude in [-180, 180]; otherwise it raises Invalid
\* Coordinates and leaves the location set before unchanged.  (13.0827,
\* 80.2707) is accepted; a latitude of 91 or a longitude of 200 is rejected.
C19_ManualAcceptance ==
  [][ ManualDirect =>
        LET lat == parseFloat(manualCoords.lat)
            lng == parseFloat(manualCoords.lng)
            acceptable ==
              /\ lat.kind = "num" /\ lng.kind = "num"
              /\ ~lessThan(lat, -90) /\ ~greaterThan(lat, 90)
              /\ ~lessThan(lng, -180) /\ ~greaterThan(lng, 180)
        IN /\ IF acceptable
                THEN /\ eventLocation' = [lat |-> lat, lng |-> lng]
                     /\ toast' = "Location Set"
                ELSE /\ eventLocation' = eventLocation
                     /\ locationInput' = locationInput
                     /\ toast' = "Invalid Coordinates"
           /\ (manualCoords = [lat |-> <<"1", "3", ".", "0", "8", "2", "7">>,
                               lng |-> <<"8", "0", ".", "2", "7", "0", "7">>])
                => /\ eventLocation' =
                        [lat |-> [kind |-> "num", neg |-> FALSE, n |-> 130827, p |-> -4],
                         lng |-> [kind |-> "num", neg |-> FALSE, n |-> 802707, p |-> -4]]
                   /\ locationInput' =
                        [empty |-> FALSE, lat |-> 13082700, lng |-> 80270700]
           /\ (manualCoords.lat = <<"9", "1">> \/ manualCoords.lng = <<"2", "0", "0">>)
                => eventLocation' = eventLocation ]_vars

\* A latitude of 91 was refused while the location set before, (13.0827,
\* 80.2707), is kept.
C19_Witness ==
  /\ adminMounted
  /\ manualCoords.lat = <<"9", "1">>
  /\ toast = "Invalid Coordinates"
  /\ eventLocation.lat.n = 130827 /\ eventLocation.lng.n = 802707

\* C20: Registered and Error are terminal for the mounted poller: a step that
\* ends in one of them sends no status query, and a step that starts in one
\* of them leaves the status as it is.
C20_TerminalStatus ==
  [][ (pollMounted /\ pollMounted')
      => (/\ status' \in {"registered", "error"}
                => queriesIssued' = queriesIssued
          /\ status \in {"registered", "error"} => status' = status) ]_vars

\* C21: status queries are sent only when the confirmation screen is entered
\* and on ticks of the interval while the status is Loading or Pending: the
\* step that handles a response sends none, and no other step but a tick does.
C21_QueriesOnlyOnEntryAndTick ==
  [][ /\ StatusResponse => queriesIssued' = queriesIssued
      /\ (pollMounted /\ queriesIssued' > queriesIssued)
           => (PollTick /\ status \in {"loading", "pending"}) ]_vars

\* C22: every status answer handled by the mounted poller is classified:
\* registered gives Registered, pending gives Pending and every other answer
\* gives Error; after an answer the status is not Loading.
C22_ResponseClassified ==
  [][ \A o \in StatusOutcomes :
        StatusResponseWith(o)
          => (/\ status' = (CASE o = "registered" -> "registered"
                              [] o = "pending" -> "pending"
                              [] OTHER -> "error")
              /\ status' # "loading") ]_vars

\* C23: in the mounted wizard every stream that was acquired and not stopped
\* is the stream held in state, so at most one unreleased stream exists.
C23_OnlyHeldStreamLive ==
  wizMounted =>
    /\ liveStreams \subseteq {stream} \ {NoStream}
    /\ Cardinality(liveStreams) <= 1

\* C24: when the mounted wizard handles a failed register_attendance answer
\* (an HTTP error other than 401, or a network failure) it raises the error
\* toast and resets submitting; the step, the captured image, the location
\* and the camera are unchanged, and at the Locate step the submit button is
\* enabled again.
C24_FailureKeepsDraft ==
  [][ \A o \in FailedOutcomes \ {"http401"} :
        (wizMounted /\ RegResponseWith(o))
          => (/\ UNCHANGED <<route, step, photoTaken, selfieData, location,
                             stream, cameraActive, cameraVars>>
              /\ toast' = "Submission Error"
              /\ ~submitting'
              /\ step = 2 => (location' # NULL /\ photoTaken')) ]_vars

\* The failure was handled at the Locate step: the image and the location
\* are still there and the submit button is enabled.
C24_Witness ==
  /\ wizMounted /\ step = 2 /\ toast = "Submission Error"
  /\ photoTaken /\ selfieData # NULL /\ location # NULL
  /\ ~submitDisabled

\* C25: on the failed-attempts screen an attempt never has two
\* approve_attendance requests in flight, and while its request is in flight
\* the attempt is the one held in processingAttempt, which keeps its Approve
\* and Decline buttons disabled, whatever is done to another attempt meanwhile.
C25_OneApprovePerAttempt ==
  \A a \in AttemptIds :
    /\ approveInFlight[a] <= 1
    /\ (attemptsMounted /\ approveInFlight[a] = 1) => processingAttempt = a

\* C26: handleApprove takes an attempt off the list only when its request is
\* answered with HTTP success, and then exactly the attempt with that
\* attempt_id; on any other answer and on a network failure the list is
\* unchanged; in every case processingAttempt is null afterwards.
C26_ApproveRemovesOnSuccess ==
  [][ /\ ApproveClick => failedAttempts' = failedAttempts
      /\ \A a \in AttemptIds, o \in ApproveOutcomes :
           (attemptsMounted /\ ApproveResponseWith(a, o))
             => /\ failedAttempts' =
                     IF o = "ok"
                       THEN {x \in failedAttempts : x.attempt_id # a}
                       ELSE failedAttempts
                /\ processingAttempt' = NULL ]_vars

\* An approve request of a1 was answered with success while a1 and a2 were
\* listed: a1 is gone, a2 is still listed, nothing is being processed.
C26_Witness ==
  /\ attemptsMounted
  /\ toast = "Attendance Approved"
  /\ failedAttempts = attemptsWithEventInfo({"e2"})
  /\ loadedFor = "all"
  /\ approveInFlight["a1"] = 0
  /\ processingAttempt = NULL

\* C27: whenever no load is in flight and the last load succeeded, the list
\* in state was fetched for the selected filter (or for all events, of which
\* the screen shows the selected event's part): a change of selectedEvent
\* during a load is not lost.
C27_ListMatchesFilter ==
  (attemptsMounted /\ loadInFlight = <<>> /\ loadedFor \notin {NULL, "failed"})
    => loadedFor \in {selectedEvent, "all"}

\* C28: when fetchDashboardData completes without error, with every request
\* answered with ok, failedAttemptsCount is the sum of the failed-attempt
\* counts of the active events which that fetch put into activeEvents.
C28_FailedCountIsSum ==
  [][ \A n \in FaceCounts :
        (dashMounted /\ DashFacesResponseWith("ok", n, EventIds))
          => failedAttemptsCount' = totalFailedAttempts(activeEvents', EventIds) ]_vars

C30_NoRequestUnauthenticated ==
  [][ adminAuthenticated # "true"
        => /\ createInFlight' <= createInFlight
           /\ \A a \in AttemptIds : approveInFlight'[a] <= approveInFlight[a]
           /\ Len(loadInFlight') <= Len(loadInFlight)
           /\ Len(dashFetch') <= Len(dashFetch)
           /\ (CreateMount \/ AttemptsMount \/ DashMount)
                => navPending' = "/admin/login" ]_vars

====
